---- MODULE Spec2Model ----
(***************************************************************************)
(* Verification model of the stress-monitor training pipeline:             *)
(*   training/wesad_prepare.py        reference windowing run              *)
(*   training/merge_local_and_train.py field-session builder, harmonizer,  *)
(*                                     group-aware training                *)
(*   training/train_stress_model.py   training from a feature table        *)
(*                                                                         *)
(* Numbers.  A float is modelled as a tagged value: a reduced fraction     *)
(* (k = "num"), NaN (k = "nan") or an infinity (k = "inf").  Fields whose  *)
(* code value is a standard deviation or a root mean square hold the       *)
(* SQUARE of that value (the variance / the mean square): the square root  *)
(* is monotone on the non-negative reals and keeps zero, sign and          *)
(* finiteness, which is all the pipeline reads of them.                    *)
(***************************************************************************)
EXTENDS Integers, Sequences, FiniteSets, TLC

(***************************************************************************)
(* Program constants                                                       *)
(***************************************************************************)
\* DEFAULT_WRIST_FS["BVP"], ["EDA"], ["TEMP"] and label_fs
FS_BVP == 64
FS_EDA == 4
FS_TEMP == 4
LABEL_FS == 700
\* win = 8 in build_local_features
ROLL_WIN == 8

(***************************************************************************)
(* Bounds of the model                                                     *)
(***************************************************************************)
\* longest exhaustively enumerated pulse segment (low-rate family)
MaxLen == 9
\* amplitude of a tall pulse sample next to ripples of height 1
Amp == 20
\* sample rate of the exhaustively enumerated pulse segments
SmallFs == 8

(***************************************************************************)
(* Float values                                                            *)
(***************************************************************************)
Abs(n) == IF n < 0 THEN -n ELSE n

RECURSIVE Gcd(_, _)
Gcd(a, b) == IF b = 0 THEN a ELSE Gcd(b, a % b)

\* the fraction n/d (d # 0) in lowest terms with a positive denominator
Num(n, d) ==
    LET s == IF d < 0 THEN -1 ELSE 1
        g == Gcd(Abs(n), Abs(d))
    IN  [k |-> "num", n |-> (s * n) \div g, d |-> (s * d) \div g]

NaN == [k |-> "nan", n |-> 0, d |-> 1]
Inf == [k |-> "inf", n |-> 1, d |-> 1]
Int2Val(i) == Num(i, 1)
Zero == Int2Val(0)

\* np.isfinite
IsFinite(v) == v.k = "num"
\* pandas isna: NaN only (an infinity is a value until it is replaced)
IsNa(v) == v.k = "nan"

\* arithmetic on finite values
Add(a, b) ==
    LET g == Gcd(a.d, b.d)
    IN  Num(a.n * (b.d \div g) + b.n * (a.d \div g), a.d * (b.d \div g))
Neg(a) == [a EXCEPT !.n = -a.n]
Sub(a, b) == Add(a, Neg(b))
Mul(a, b) ==
    LET g1 == Gcd(Abs(a.n), b.d)
        g2 == Gcd(Abs(b.n), a.d)
    IN  Num((a.n \div g1) * (b.n \div g2), (a.d \div g2) * (b.d \div g1))
Lt(a, b) == a.n * b.d < b.n * a.d
Le(a, b) == a.n * b.d <= b.n * a.d
\* a finite value divided by a positive integer
DivInt(a, m) == Mul(a, Num(1, m))

\* sums, split in halves to keep the evaluation shallow
RECURSIVE SumIntsIn(_, _, _)
SumIntsIn(s, lo, hi) ==
    IF lo > hi THEN 0
    ELSE IF lo = hi THEN s[lo]
    ELSE LET mid == (lo + hi) \div 2
         IN  SumIntsIn(s, lo, mid) + SumIntsIn(s, mid + 1, hi)
SumInts(s) == SumIntsIn(s, 1, Len(s))

RECURSIVE SumValsIn(_, _, _)
SumValsIn(s, lo, hi) ==
    IF lo > hi THEN Zero
    ELSE IF lo = hi THEN s[lo]
    ELSE LET mid == (lo + hi) \div 2
         IN  Add(SumValsIn(s, lo, mid), SumValsIn(s, mid + 1, hi))
SumVals(s) == SumValsIn(s, 1, Len(s))

MaxOf(S) == CHOOSE x \in S : \A y \in S : y <= x
MinOf(S) == CHOOSE x \in S : \A y \in S : x <= y
MinVal(S) == CHOOSE x \in S : \A y \in S : Le(x, y)
MaxVal(S) == CHOOSE x \in S : \A y \in S : Le(y, x)
Range(s) == {s[i] : i \in DOMAIN s}

\* Python slice s[a:b] for 0 <= a (0-based, half-open, clipped to len(s))
Slice(s, a, b) ==
    LET lo == IF a > Len(s) THEN Len(s) ELSE a
        hi == IF b > Len(s) THEN Len(s) ELSE b
    IN  IF hi <= lo THEN <<>> ELSE SubSeq(s, lo + 1, hi)

\* sequence of the elements of s that satisfy Keep, order kept
RECURSIVE SelectIdx(_, _, _)
SelectIdx(s, keep, i) ==
    IF i > Len(s) THEN <<>>
    ELSE (IF i \in keep THEN <<s[i]>> ELSE <<>>) \o SelectIdx(s, keep, i + 1)

\* np.diff of an integer sequence
Diff(s) == [i \in 1..(IF Len(s) = 0 THEN 0 ELSE Len(s) - 1) |-> s[i + 1] - s[i]]

(***************************************************************************)
(* Heart-rate / HRV extractor: _hr_features_from_bvp and scipy's           *)
(* find_peaks(x, distance, prominence) as it is called there.              *)
(* A pulse segment is a sequence of integers (1-based here, peak GAPS are  *)
(* the same as in the 0-based code).                                       *)
(***************************************************************************)
\* scipy _local_maxima_1d: a strict rise, a plateau, a strict fall; the peak is
\* the plateau's midpoint; the first and last sample are never peaks.  The scan
\* is stated per rising edge j: the plateau that starts at j ends at PlateauEnd.
PlateauEnd(x, j) == MinOf({a \in j..Len(x) : a = Len(x) \/ x[a + 1] # x[j]})

RECURSIVE SortedSeq(_)
SortedSeq(S) == IF S = {} THEN <<>> ELSE <<MinOf(S)>> \o SortedSeq(S \ {MinOf(S)})

LocalMaxima(x) ==
    SortedSeq({(j + PlateauEnd(x, j)) \div 2 :
                 j \in {i \in 2..(Len(x) - 1) :
                           /\ x[i - 1] < x[i]
                           /\ PlateauEnd(x, i) < Len(x)
                           /\ x[PlateauEnd(x, i) + 1] < x[i]}})

\* scipy _select_by_peak_distance: peaks are visited from the highest priority
\* (sample value) down; every other peak closer than `distance` to a kept one is
\* dropped.  argsort is stable on these short arrays, so among equal heights
\* the rightmost peak is visited first.
RECURSIVE SelectByDistance(_, _, _, _, _)
SelectByDistance(x, peaks, distance, keep, todo) ==
    IF todo = {} THEN keep
    ELSE LET j == CHOOSE c \in todo : \A o \in todo :
                     \/ x[peaks[o]] < x[peaks[c]]
                     \/ (x[peaks[o]] = x[peaks[c]] /\ o <= c)
         IN  IF j \notin keep
             THEN SelectByDistance(x, peaks, distance, keep, todo \ {j})
             ELSE SelectByDistance(x, peaks, distance,
                      {c \in keep : c = j \/ Abs(peaks[c] - peaks[j]) >= distance},
                      todo \ {j})

\* scipy _peak_prominences (wlen = None): the peak's height above the higher of
\* the two lowest points reached before a higher sample or the segment's end
Prominence(x, p) ==
    LET higherL == {i \in 1..(p - 1) : x[i] > x[p]}
        higherR == {i \in (p + 1)..Len(x) : x[i] > x[p]}
        lo == IF higherL = {} THEN 1 ELSE MaxOf(higherL) + 1
        hi == IF higherR = {} THEN Len(x) ELSE MinOf(higherR) - 1
        leftMin == MinOf({x[i] : i \in lo..p})
        rightMin == MinOf({x[i] : i \in p..hi})
    IN  x[p] - (IF leftMin > rightMin THEN leftMin ELSE rightMin)

\* n^2 * variance of the segment (np.std(centered) squared, times n^2)
VarTimesN2(x) ==
    Len(x) * SumInts([i \in DOMAIN x |-> x[i] * x[i]]) - SumInts(x) * SumInts(x)

\* prominence >= 0.2 on the centered segment, which is divided by its standard
\* deviation when that exceeds 1e-9 (for integer samples: when it is not 0)
ProminentEnough(x, p) ==
    LET r == Prominence(x, p)
    IN  IF VarTimesN2(x) > 0
        THEN 25 * r * r * Len(x) * Len(x) >= VarTimesN2(x)
        ELSE 5 * r >= 1

\* distance = int(max(1, fs * 0.4))
PeakDistance(fs) == IF (4 * fs) \div 10 < 1 THEN 1 ELSE (4 * fs) \div 10

\* find_peaks(centered, distance=distance, prominence=0.2): the distance
\* condition is evaluated before the prominence condition
FindPeaks(x, fs) ==
    LET all == LocalMaxima(x)
        kept == SelectByDistance(x, all, PeakDistance(fs), DOMAIN all, DOMAIN all)
        far == SelectIdx(all, kept, 1)
    IN  SelectIdx(far, {i \in DOMAIN far : ProminentEnough(x, far[i])}, 1)

\* rr = np.diff(peaks) / fs ; rr = rr[(rr > 0.3) & (rr < 1.8)], kept as peak gaps
\* in samples: gap/fs > 0.3 and gap/fs < 1.8
RRFilterNoUpper(gap, fs) == 10 * gap > 3 * fs
RRFilter(gap, fs) == 10 * gap > 3 * fs /\ 10 * gap < 18 * fs

AcceptedGaps(x, fs) ==
    LET gaps == Diff(FindPeaks(x, fs))
    IN  SelectIdx(gaps, {i \in DOMAIN gaps : RRFilter(gaps[i], fs)}, 1)

\* bpm = 60.0 / rr for one accepted gap
Bpm(gap, fs) == Num(60 * fs, gap)

\* population variance of a sequence of finite values (np.std squared)
PopVar(s) ==
    LET m == Len(s)
        mean == DivInt(SumVals(s), m)
        sq == [i \in DOMAIN s |-> Mul(Sub(s[i], mean), Sub(s[i], mean))]
    IN  DivInt(SumVals(sq), m)

UndefinedHr ==
    [bpm_avg |-> NaN, bpm_min |-> NaN, bpm_max |-> NaN, bpm_std |-> NaN,
     hrv_rmssd |-> NaN, hrv_sdnn |-> NaN]

\* rr_ms = rr * 1000 as exact values
RRms(gaps, fs) == [i \in DOMAIN gaps |-> Num(1000 * gaps[i], fs)]

\* rmssd = np.sqrt(np.mean(diff_rr ** 2)) if diff_rr.size else np.nan, squared
MeanSquareDiff(rrms) ==
    LET d == [i \in 1..(IF Len(rrms) = 0 THEN 0 ELSE Len(rrms) - 1) |->
                 Sub(rrms[i + 1], rrms[i])]
    IN  IF Len(d) = 0 THEN NaN
        ELSE DivInt(SumVals([i \in DOMAIN d |-> Mul(d[i], d[i])]), Len(d))

\* sdnn = np.std(rr_ms) if rr_ms.size else np.nan, squared
SdnnSquared(rrms) == IF Len(rrms) = 0 THEN NaN ELSE PopVar(rrms)

\* peaks.size < 2 and rr.size < 2: the fewest peaks and intervals accepted
MinPeaks == 2
MinIntervalsOneLess == 2 - 1
MinIntervals == 2

HrFeaturesFromBvp(bvp, fs) ==
    IF Len(bvp) < fs THEN UndefinedHr
    ELSE IF Len(FindPeaks(bvp, fs)) < MinPeaks THEN UndefinedHr
    ELSE LET gaps == AcceptedGaps(bvp, fs)
             bpm == [i \in DOMAIN gaps |-> Bpm(gaps[i], fs)]
             rr_ms == RRms(gaps, fs)
         IN  IF Len(gaps) < MinIntervals THEN UndefinedHr
             ELSE [bpm_avg |-> DivInt(SumVals(bpm), Len(bpm)),
                   bpm_min |-> MinVal(Range(bpm)),
                   bpm_max |-> MaxVal(Range(bpm)),
                   bpm_std |-> PopVar(bpm),
                   hrv_rmssd |-> MeanSquareDiff(rr_ms),
                   hrv_sdnn |-> SdnnSquared(rr_ms)]

HrFields == {"bpm_avg", "bpm_min", "bpm_max", "bpm_std", "hrv_rmssd", "hrv_sdnn"}

(***************************************************************************)
(* Signal statistics kit of the reference path: _safe_stats, _slope        *)
(* (sensor samples are integers)                                           *)
(***************************************************************************)
SafeStats(x) ==
    IF Len(x) = 0 THEN [avg |-> NaN, min |-> NaN, max |-> NaN, std |-> NaN]
    ELSE [avg |-> Num(SumInts(x), Len(x)),
          min |-> Int2Val(MinOf(Range(x))),
          max |-> Int2Val(MaxOf(Range(x))),
          std |-> Num(VarTimesN2(x), Len(x) * Len(x))]

\* np.polyfit(t, x, deg=1)[0] with t = 0, 1, .., n-1: the least-squares slope
SlopeOf(x) ==
    IF Len(x) < 2 THEN Zero
    ELSE LET n == Len(x)
             st == SumInts([i \in 1..n |-> i - 1])
             stt == SumInts([i \in 1..n |-> (i - 1) * (i - 1)])
             stx == SumInts([i \in 1..n |-> (i - 1) * x[i]])
         IN  Num(n * stx - st * SumInts(x), n * stt - st * st)

(***************************************************************************)
(* Reference windowing engine: _majority_label, build_subject_rows         *)
(***************************************************************************)
CountOf(labels, c) == Cardinality({i \in DOMAIN labels : labels[i] = c})

\* vals, counts = np.unique(labels, return_counts=True), as (value, count) pairs
UniqueCounts(labels) == {<<c, CountOf(labels, c)>> : c \in Range(labels)}

\* vals[np.argmax(counts)]: vals is sorted and argmax takes the first maximum
MajorityLabelLargest(labels) ==
    LET vc == UniqueCounts(labels)
        best == MaxOf({p[2] : p \in vc})
    IN  MaxOf({p[1] : p \in {q \in vc : q[2] = best}})
MajorityLabel(labels) ==
    LET vc == UniqueCounts(labels)
        best == MaxOf({p[2] : p \in vc})
    IN  MinOf({p[1] : p \in {q \in vc : q[2] = best}})

CeilDiv(a, b) == (a + b - 1) \div b

\* label_for_window: l0 = floor(t0 * 700), l1 = min(size, ceil(t1 * 700))
LabelLo(start_idx, sig_fs) == (start_idx * LABEL_FS) \div sig_fs
LabelHi(label, end_idx, sig_fs) ==
    LET c == CeilDiv(end_idx * LABEL_FS, sig_fs)
    IN  IF Len(label) < c THEN Len(label) ELSE c

LabelForWindow(label, start_idx, end_idx, sig_fs) ==
    LET l0 == LabelLo(start_idx, sig_fs)
        l1 == LabelHi(label, end_idx, sig_fs)
    IN  IF l1 <= l0
        THEN (IF l0 < Len(label) THEN label[l0 + 1] ELSE -1)
        ELSE MajorityLabel(Slice(label, l0, l1))

\* win_bvp, step_bvp
WinBvp(ws) == ws * FS_BVP
StepBvp(ss) == ss * FS_BVP

\* stop of range(0, bvp.size - win_bvp + 1, step_bvp)
LoopStopExclusive(n, win) == n - win
LoopStop(n, win) == n - win + 1

\* int(t * rate) for t = idx / 64: the index into a stream at `rate`
StreamIndex(idx, rate) == (idx * rate) \div FS_BVP

\* lines 143-159: the window starting at `start`, its sub-segments and label
WindowAt(subj, start, ws) ==
    LET end == start + WinBvp(ws)
        e0 == StreamIndex(start, FS_EDA)
        e1 == StreamIndex(end, FS_EDA)
        t0i == StreamIndex(start, FS_TEMP)
        t1i == StreamIndex(end, FS_TEMP)
    IN  [start |-> start, end |-> end,
         bvp_win |-> Slice(subj.bvp, start, end),
         e0 |-> e0, e1 |-> e1, t0i |-> t0i, t1i |-> t1i,
         eda_win |-> Slice(subj.eda, e0, e1),
         temp_win |-> Slice(subj.temp, t0i, t1i),
         raw_label |-> LabelForWindow(subj.label, start, end, FS_BVP)]

\* raw_label not in (1, 2): continue
KeptLabel(raw_label) == raw_label \in {1, 2}

\* target = 0 if raw_label == 1 else 1
Target(raw_label) == IF raw_label = 1 THEN 0 ELSE 1

\* lines 163-185: the feature row of a kept window
WindowRow(subj, w) ==
    LET h == HrFeaturesFromBvp(w.bvp_win, FS_BVP)
        e == SafeStats(w.eda_win)
        t == SafeStats(w.temp_win)
    IN  [subject |-> subj.name,
         window_start_s |-> Num(w.start, FS_BVP),
         window_end_s |-> Num(w.end, FS_BVP),
         label |-> Int2Val(Target(w.raw_label)),
         bpm_avg |-> h.bpm_avg, bpm_min |-> h.bpm_min, bpm_max |-> h.bpm_max,
         bpm_std |-> h.bpm_std, hrv_rmssd |-> h.hrv_rmssd, hrv_sdnn |-> h.hrv_sdnn,
         gsr_avg |-> e.avg, gsr_min |-> e.min, gsr_max |-> e.max, gsr_std |-> e.std,
         gsr_slope |-> SlopeOf(w.eda_win),
         temp_avg |-> t.avg, temp_min |-> t.min, temp_max |-> t.max, temp_std |-> t.std,
         temp_slope |-> SlopeOf(w.temp_win)]

\* the rows of one subject: the loop of lines 142-187 run to its end
RECURSIVE BuildRowsFrom(_, _, _, _)
BuildRowsFrom(subj, start, ws, ss) ==
    IF start >= LoopStop(Len(subj.bvp), WinBvp(ws)) THEN <<>>
    ELSE LET w == WindowAt(subj, start, ws)
         IN  (IF KeptLabel(w.raw_label) THEN <<WindowRow(subj, w)>> ELSE <<>>)
                 \o BuildRowsFrom(subj, start + StepBvp(ss), ws, ss)

BuildSubjectRows(subj, ws, ss) == BuildRowsFrom(subj, 0, ws, ss)

(***************************************************************************)
(* Field-session feature builder: merge_local_and_train.py                 *)
(* A table cell is a float value or unparsable text (k = "text").          *)
(***************************************************************************)
BadText == [k |-> "text", n |-> 0, d |-> 1]

\* pd.to_numeric(errors="coerce") and pd.to_datetime(errors="coerce")
Coerce(v) == IF v.k = "text" THEN NaN ELSE v

\* order of non-NaN values: an infinity is above every finite value
ExtLe(a, b) == b.k = "inf" \/ (a.k = "num" /\ b.k = "num" /\ Le(a, b))

\* v > c for a float v and an integer c (NaN compares false)
GreaterThan(v, c) == v.k = "inf" \/ (v.k = "num" /\ Lt(Int2Val(c), v))

\* v / m for a positive integer m
DivBy(v, m) == IF v.k = "num" THEN DivInt(v, m) ELSE v

\* sort_values(["time_iso", "ts"], na_position="last"): a stable sort, so rows of
\* equal keys keep their file order (line)
SortsBefore(a, b) ==
    LET ta == a.time_iso
        tb == b.time_iso
    IN  IF IsNa(ta) # IsNa(tb) THEN IsNa(tb)
        ELSE IF ~IsNa(ta) /\ ta # tb THEN Lt(ta, tb)
        ELSE IF a.ts # b.ts THEN a.ts < b.ts
        ELSE a.line < b.line

RECURSIVE SortRows(_)
SortRows(S) ==
    IF S = {} THEN <<>>
    ELSE LET first == CHOOSE r \in S : \A o \in S \ {r} : SortsBefore(r, o)
         IN  <<first>> \o SortRows(S \ {first})

\* lines 118-123: parse the time stamps, sort, coerce the three averages
ReadSession(rows) ==
    SortRows({[line |-> i,
               time_iso |-> Coerce(rows[i].time_iso),
               ts |-> rows[i].ts,
               bpm_avg |-> Coerce(rows[i].bpm_avg),
               gsr_avg |-> Coerce(rows[i].gsr_avg),
               temp_avg |-> Coerce(rows[i].temp_avg),
               label |-> rows[i].label] : i \in DOMAIN rows})

Column(df, c) == [i \in DOMAIN df |-> df[i][c]]

RECURSIVE SortVals(_)
SortVals(idx) ==
    IF idx = {} THEN <<>>
    ELSE LET first == CHOOSE p \in idx : \A o \in idx :
                         \/ ExtLe(p[1], o[1]) /\ ~ExtLe(o[1], p[1])
                         \/ (ExtLe(p[1], o[1]) /\ ExtLe(o[1], p[1]) /\ p[2] <= o[2])
         IN  <<first[1]>> \o SortVals(idx \ {first})

\* Series.median(skipna=True): NaN when no value is left
Median(col) ==
    LET sorted == SortVals({<<col[i], i>> : i \in {j \in DOMAIN col : ~IsNa(col[j])}})
        n == Len(sorted)
        lo == sorted[(n + 1) \div 2]
        hi == sorted[(n \div 2) + 1]
    IN  IF n = 0 THEN NaN
        ELSE IF hi.k = "inf" THEN Inf
        ELSE DivInt(Add(lo, hi), 2)

\* thresholds and divisors of _normalize_local_units
GSR_MEDIAN_LIMIT == 50
GSR_DIVISOR == 1000
TEMP_MEDIAN_LIMIT == 80
TEMP_DIVISOR == 10

ScaleColumn(df, c, m) == [i \in DOMAIN df |-> [df[i] EXCEPT ![c] = DivBy(@, m)]]

NormalizeGsr(df) ==
    IF GreaterThan(Median(Column(df, "gsr_avg")), GSR_MEDIAN_LIMIT)
    THEN ScaleColumn(df, "gsr_avg", GSR_DIVISOR)
    ELSE df

NormalizeTempOnce(df) ==
    IF GreaterThan(Median(Column(df, "temp_avg")), TEMP_MEDIAN_LIMIT)
    THEN ScaleColumn(df, "temp_avg", TEMP_DIVISOR)
    ELSE df

NormalizeLocalUnitsGsrTwice(df) == NormalizeTempOnce(NormalizeTempOnce(NormalizeGsr(NormalizeGsr(df))))
NormalizeLocalUnits(df) == NormalizeTempOnce(NormalizeTempOnce(NormalizeGsr(df)))

\* str(label).strip().lower() on the labels the sessions use
StripLower(label) ==
    CASE label = " Rest " -> "rest"
      [] label = "STRESS" -> "stress"
      [] label = "Stress_Task" -> "stress_task"
      [] OTHER -> label

\* label_map; -1 stands for the NaN that .map gives outside the vocabulary
LabelMap(label) ==
    CASE label \in {"rest", "recovery", "unlabeled"} -> 0
      [] label \in {"stress_task", "stress"} -> 1
      [] OTHER -> -1

LabelBin(label) == LabelMap(StripLower(label))

\* dropna(subset=["bpm_avg", "gsr_avg", "temp_avg", "label_bin"])
KeepsRowAnyLabel(r) ==
    ~IsNa(r.bpm_avg) /\ ~IsNa(r.gsr_avg) /\ ~IsNa(r.temp_avg)
KeepsRow(r) ==
    ~IsNa(r.bpm_avg) /\ ~IsNa(r.gsr_avg) /\ ~IsNa(r.temp_avg) /\ LabelBin(r.label) # -1

DropUndefined(df) == SelectIdx(df, {i \in DOMAIN df : KeepsRow(df[i])}, 1)

\* the trailing window arr[max(0, i - win + 1) : i + 1] of position i (from 1)
TrailingOneMore(col, i) == SubSeq(col, IF i - ROLL_WIN < 1 THEN 1 ELSE i - ROLL_WIN, i)
Trailing(col, i) == SubSeq(col, IF i - ROLL_WIN + 1 < 1 THEN 1 ELSE i - ROLL_WIN + 1, i)

\* pandas rolling aggregations see an infinity as a missing value
Observed(w) == SelectIdx(w, {j \in DOMAIN w : IsFinite(w[j])}, 1)

\* rolling(win, min_periods=1).min() / .max()
RollMin(col, i) ==
    LET obs == Observed(Trailing(col, i))
    IN  IF Len(obs) < 1 THEN NaN ELSE MinVal(Range(obs))
RollMax(col, i) ==
    LET obs == Observed(Trailing(col, i))
    IN  IF Len(obs) < 1 THEN NaN ELSE MaxVal(Range(obs))

\* rolling(win, min_periods=2).std().fillna(0.0): the sample variance (ddof = 1)
RollStd(col, i) ==
    LET obs == Observed(Trailing(col, i))
        m == Len(obs)
    IN  IF m < 2 THEN Zero
        ELSE Mul(PopVar(obs), Num(m, m - 1))

\* v < 1/e and v > 1/e for a finite v, without multiplying by e
BelowTiny(v, e) == v.n <= (v.d - 1) \div e
AboveTiny(v, e) == v.n > v.d \div e

\* den < 1e-9 and w > 1e-6, as the reciprocals of the thresholds
SLOPE_EPS_INV == 1000000000
RATE_EPS_INV == 1000000

\* _rolling_slope: numpy arithmetic, where an infinity in the window makes the
\* sums NaN
RollingSlope(col, i) ==
    LET y == Trailing(col, i)
        m == Len(y)
        x_mean == Num(m - 1, 2)
        y_mean == DivInt(SumVals(y), m)
        dx == [j \in 1..m |-> Sub(Int2Val(j - 1), x_mean)]
        den == SumVals([j \in 1..m |-> Mul(dx[j], dx[j])])
    IN  IF m < 2 THEN Zero
        ELSE IF \E j \in 1..m : ~IsFinite(y[j]) THEN NaN
        ELSE IF BelowTiny(den, SLOPE_EPS_INV) THEN Zero
        ELSE Mul(SumVals([j \in 1..m |-> Mul(dx[j], Sub(y[j], y_mean))]),
                 Num(den.d, den.n))

\* w[np.isfinite(w) & (w > 1e-6)]
ValidRate(v) == IsFinite(v) /\ AboveTiny(v, RATE_EPS_INV)
ValidRates(w) == SelectIdx(w, {j \in DOMAIN w : ValidRate(w[j])}, 1)

\* rr = 60000.0 / w
RRFromRate(w) == [j \in DOMAIN w |-> Mul(Int2Val(60000), Num(w[j].d, w[j].n))]

\* _rmssd_from_bpm_series (squared)
RmssdFromBpm(col, i) ==
    LET w == ValidRates(Trailing(col, i))
    IN  IF Len(w) < 3 THEN Zero ELSE MeanSquareDiff(RRFromRate(w))

\* _sdnn_from_bpm_series (squared)
SdnnFromBpm(col, i) ==
    LET w == ValidRates(Trailing(col, i))
    IN  IF Len(w) < 2 THEN Zero ELSE PopVar(RRFromRate(w))

FEATURE_COLUMNS ==
    <<"bpm_avg", "bpm_min", "bpm_max", "bpm_std", "hrv_rmssd", "hrv_sdnn",
      "gsr_avg", "gsr_min", "gsr_max", "gsr_std", "gsr_slope",
      "temp_avg", "temp_min", "temp_max", "temp_std", "temp_slope">>

\* lines 137-159: the feature row of position i of the kept frame
LocalRow(stem, df, i) ==
    LET bpm == Column(df, "bpm_avg")
        gsr == Column(df, "gsr_avg")
        temp == Column(df, "temp_avg")
    IN  [subject |-> "LOCAL_" \o stem,
         line |-> df[i].line,
         label |-> Int2Val(LabelBin(df[i].label)),
         bpm_avg |-> bpm[i], bpm_min |-> RollMin(bpm, i), bpm_max |-> RollMax(bpm, i),
         bpm_std |-> RollStd(bpm, i),
         hrv_rmssd |-> RmssdFromBpm(bpm, i), hrv_sdnn |-> SdnnFromBpm(bpm, i),
         gsr_avg |-> gsr[i], gsr_min |-> RollMin(gsr, i), gsr_max |-> RollMax(gsr, i),
         gsr_std |-> RollStd(gsr, i), gsr_slope |-> RollingSlope(gsr, i),
         temp_avg |-> temp[i], temp_min |-> RollMin(temp, i), temp_max |-> RollMax(temp, i),
         temp_std |-> RollStd(temp, i), temp_slope |-> RollingSlope(temp, i)]

\* the columns a feature table needs
TABLE_COLUMNS == <<"subject", "label">> \o FEATURE_COLUMNS

\* a missing subject cell
MissingName == ""

\* replace([np.inf, -np.inf], np.nan).dropna() over the named columns
DefinedCell(r, c) == IF c = "subject" THEN r[c] # MissingName ELSE IsFinite(r[c])
AllFinite(r, cols) == \A c \in Range(cols) : DefinedCell(r, c)
KeepAllRows(frame, cols) == frame
DropNonFinite(frame, cols) ==
    SelectIdx(frame, {i \in DOMAIN frame : AllFinite(frame[i], cols)}, 1)

\* lines 137-162
LocalFeatures(stem, df) ==
    DropNonFinite([i \in DOMAIN df |-> LocalRow(stem, df, i)], TABLE_COLUMNS)

\* LOCAL_REQUIRED columns all present
AnyColumnsWillDo(session) == TRUE
HasRequiredColumns(session) == session.columns_ok

\* build_local_features on a well-formed table
BuildLocalFeatures(session) ==
    LocalFeatures(session.stem,
                  DropUndefined(NormalizeLocalUnits(ReadSession(session.rows))))

(***************************************************************************)
(* Pipeline runs: wesad_prepare.main, merge_local_and_train.main with      *)
(* train_combined, train_stress_model.main                                 *)
(***************************************************************************)
\* the columns of the reference feature table
REFERENCE_COLUMNS ==
    <<"subject", "window_start_s", "window_end_s", "label">> \o FEATURE_COLUMNS

\* frame[["subject", "label", *FEATURE_COLUMNS]]
SelectColumns(frame) ==
    [i \in DOMAIN frame |-> [c \in Range(TABLE_COLUMNS) |-> frame[i][c]]]

\* pd.concat(frames, ignore_index=True)
RECURSIVE Concat(_)
Concat(frames) == IF frames = <<>> THEN <<>> ELSE Head(frames) \o Concat(Tail(frames))

\* the distinct groups of a table
Groups(frame) == {frame[i].subject : i \in DOMAIN frame}

\* the orders in which a seed can shuffle the groups
Orderings(S) ==
    {f \in [1..Cardinality(S) -> S] : \A a, b \in DOMAIN f : a # b => f[a] # f[b]}

\* n_test = ceil(test_size * n_groups), test_size in hundredths
NTest(test_size, n) == CeilDiv(test_size * n, 100)

\* GroupShuffleSplit raises ValueError: a fraction outside (0, 1), or an empty
\* training side (n_train = n_groups - n_test = 0)
SplitRaises(frame, test_size) ==
    LET n == Cardinality(Groups(frame))
    IN  test_size <= 0 \/ test_size >= 100 \/ n - NTest(test_size, n) <= 0

\* a split of the rows instead of the groups
RowShuffleSplit(frame, test_size, perm) ==
    LET n == Len(frame)
        n_test == NTest(test_size, n)
        rank(i) == (CHOOSE k \in DOMAIN perm : perm[k] = frame[i].subject) * (n + 1) + i
        test == {i \in DOMAIN frame :
                    Cardinality({j \in DOMAIN frame : rank(j) < rank(i)}) < n_test}
    IN  [train_idx |-> DOMAIN frame \ test, test_idx |-> test]

\* next(splitter.split(X, y, groups)): the first n_test groups of the shuffled
\* order go to the evaluation side, the others to the training side
GroupShuffleSplit(frame, test_size, perm) ==
    LET n_test == NTest(test_size, Len(perm))
        test_groups == {perm[k] : k \in 1..n_test}
        train_groups == {perm[k] : k \in (n_test + 1)..Len(perm)}
    IN  [train_idx |-> {i \in DOMAIN frame : frame[i].subject \in train_groups},
         test_idx |-> {i \in DOMAIN frame : frame[i].subject \in test_groups}]

\* the classes among the rows of an index set
Classes(frame, idx) == {frame[i].label : i \in idx}

\* pipe.fit: LogisticRegression raises ValueError on fewer than two classes
FitRaises(frame, train_idx) == Cardinality(Classes(frame, train_idx)) < 2

\* roc_auc_score is undefined with one class in y_test
OneClassTest(frame, test_idx) == Cardinality(Classes(frame, test_idx)) < 2

\* the entries of metrics.json that describe the split
Metrics(frame, split) ==
    [rows_total |-> Len(frame),
     rows_train |-> Cardinality(split.train_idx),
     rows_test |-> Cardinality(split.test_idx),
     subjects_train |-> {frame[i].subject : i \in split.train_idx},
     subjects_test |-> {frame[i].subject : i \in split.test_idx}]

(***************************************************************************)
(* State                                                                   *)
(***************************************************************************)
VARIABLES
    pc,              \* position of the running program / call
    bvp,             \* pulse segment handed to the extractor
    fs,              \* its sample rate
    hr,              \* the extractor's result
    subject,         \* build_subject_rows: the loaded subject (name, streams)
    window_seconds,  \* args.window_seconds
    step_seconds,    \* args.step_seconds
    start,           \* build_subject_rows: the loop variable
    rows,            \* build_subject_rows: rows
    visited,         \* the windows the loop has visited, in order (history)
    session,         \* build_local_features: the session table read from local_csv
    df,              \* build_local_features: df after sorting and coercion
    normalized,      \* build_local_features: df after _normalize_local_units
    kept,            \* build_local_features: df after the dropna of line 135
    out,             \* build_local_features: the returned feature frame
    prog,            \* the program run: "prepare", "merge" or "train" ("" for a call)
    wesad_root,      \* prepare: the subject folders under args.wesad_root, sorted
    features_csv,    \* merge, train: the table at args.wesad_features / args.features_csv
    local_dir,       \* merge: the session tables under args.local_dir, sorted
    test_size,       \* merge, train: args.test_size, in hundredths
    idx,             \* the number of subjects / sessions the loop has done
    all_rows,        \* prepare: all_rows
    local_frames,    \* merge: local_frames
    combined,        \* the cleaned table: df (prepare, train), combined (merge)
    out_csv,         \* the feature table file at args.out_csv / args.out_merged_csv
    split,           \* train_idx, test_idx
    metrics,         \* metrics.json, written with the model files
    error            \* the message of the exception that ended the run

hrVars == <<bvp, fs, hr>>
winVars == <<subject, window_seconds, step_seconds, start, rows, visited>>
localVars == <<session, df, normalized, kept, out>>
runVars ==
    <<prog, wesad_root, features_csv, local_dir, test_size, idx, all_rows, local_frames,
      combined, out_csv, split, metrics, error>>
vars == <<pc, hrVars, winVars, localVars, runVars>>

NoSubject == [name |-> "", bvp |-> <<>>, eda |-> <<>>, temp |-> <<>>, label |-> <<>>]
HrIdle == bvp = <<>> /\ fs = 0 /\ hr = UndefinedHr
WinIdle ==
    /\ subject = NoSubject /\ window_seconds = 0 /\ step_seconds = 0
    /\ start = 0 /\ rows = <<>> /\ visited = <<>>
NoSession == [stem |-> "", columns_ok |-> TRUE, rows |-> <<>>]
LocalIdle ==
    /\ session = NoSession /\ df = <<>> /\ normalized = <<>> /\ kept = <<>> /\ out = <<>>
NoTable == [columns_ok |-> TRUE, rows |-> <<>>]
NoFile == [written |-> FALSE, rows |-> <<>>]
NoSplit == [train_idx |-> {}, test_idx |-> {}]
NoMetrics ==
    [rows_total |-> 0, rows_train |-> 0, rows_test |-> 0,
     subjects_train |-> {}, subjects_test |-> {}]
RunIdle ==
    /\ prog = "" /\ wesad_root = <<>> /\ features_csv = NoTable /\ local_dir = <<>>
    /\ test_size = 0 /\ idx = 0 /\ all_rows = <<>> /\ local_frames = <<>>
    /\ combined = <<>> /\ out_csv = NoFile /\ split = NoSplit /\ metrics = NoMetrics
    /\ error = ""

(***************************************************************************)
(* SpecHr: calls of the HR/HRV extractor                                   *)
(***************************************************************************)
\* every segment of at most MaxLen samples over {0, 1, Amp}
RECURSIVE SeqsUpTo(_, _)
SeqsUpTo(S, n) ==
    IF n = 0 THEN {<<>>}
    ELSE LET shorter == SeqsUpTo(S, n - 1)
         IN  shorter \cup {Append(s, v) : s \in {t \in shorter : Len(t) = n - 1}, v \in S}

SmallSegments == SeqsUpTo({0, 1, Amp}, MaxLen)

\* a segment of n samples, 0 but for spikes of height Amp; the first spike is at
\* sample `first`, the next ones follow at the given gaps
RECURSIVE SpikePositions(_, _)
SpikePositions(first, gaps) ==
    IF gaps = <<>> THEN {first}
    ELSE {first} \cup SpikePositions(first + Head(gaps), Tail(gaps))

SpikeTrain(n, first, gaps) ==
    [i \in 1..n |-> IF i \in SpikePositions(first, gaps) THEN Amp ELSE 0]

\* gaps around the limits of the plausibility filter and of the peak distance
\* at 64 samples per second: 0.3 s = 19.2, 0.4 s = 25.6, 1.8 s = 115.2 samples
SpikeGaps == {12, 19, 20, 25, 26, 32, 115, 116}
SpikeSegments ==
    {SpikeTrain(n, 2, g) : n \in {FS_BVP - 1, FS_BVP, 2 * FS_BVP, 4 * FS_BVP},
                           g \in SeqsUpTo(SpikeGaps, 2)}

HrInit ==
    /\ pc = "hr_call"
    /\ \/ bvp \in SmallSegments /\ fs = SmallFs
       \/ bvp \in SpikeSegments /\ fs = FS_BVP
    /\ hr = UndefinedHr
    /\ WinIdle /\ LocalIdle /\ RunIdle

HrCall ==
    /\ pc = "hr_call"
    /\ hr' = HrFeaturesFromBvp(bvp, fs)
    /\ pc' = "hr_done"
    /\ UNCHANGED <<bvp, fs, winVars, localVars, runVars>>

HrNext == HrCall

SpecHr == HrInit /\ [][HrNext]_vars

(***************************************************************************)
(* SpecWin: build_subject_rows on one subject, one window per step         *)
(***************************************************************************)
\* the longest recording, in seconds
MaxSeconds == 3
\* the longest window and stride, in seconds
MaxWindowSeconds == 2
MaxStepSeconds == 2
\* the label stream is made of half-second blocks of one code each
MaxLabelBlocks == 3
LabelCodes == {0, 1, 2}

RECURSIVE Repeat(_, _)
Repeat(pattern, times) ==
    IF pattern = <<>> THEN <<>>
    ELSE [i \in 1..times |-> Head(pattern)] \o Repeat(Tail(pattern), times)

LabelStreams == {Repeat(p, LABEL_FS \div 2) : p \in SeqsUpTo(LabelCodes, MaxLabelBlocks)}

\* a pulse with a beat every 28 samples (137 per minute), or a flat line
BeatTrain(n) == [i \in 1..n |-> IF i % 28 = 2 THEN Amp ELSE 0]
FlatLine(n) == [i \in 1..n |-> 0]
PulseLengths == {0, FS_BVP - 1, 2 * FS_BVP + 2} \cup {k * FS_BVP : k \in 1..MaxSeconds}
PulseStreams == {BeatTrain(n) : n \in PulseLengths} \cup {FlatLine(MaxSeconds * FS_BVP)}

\* conductance and temperature streams whose samples tell their index
Ramp(n, base) == [i \in 1..n |-> base + i]
SlowLengths == {0, FS_EDA + 1} \cup {k * FS_EDA : k \in (MaxSeconds - 1)..MaxSeconds}

SubjectOf(b, n, l) ==
    [name |-> "S2", bvp |-> b, eda |-> Ramp(n, 0), temp |-> Ramp(n, 30), label |-> l]

\* every label stream with full-length slow streams, and every slow-stream
\* length under a label stream of code 1 throughout
Subjects ==
    {SubjectOf(b, MaxSeconds * FS_EDA, l) : b \in PulseStreams, l \in LabelStreams}
    \cup {SubjectOf(b, n, [i \in 1..(MaxSeconds * LABEL_FS) |-> 1]) :
              b \in PulseStreams, n \in SlowLengths}

WinInit ==
    /\ pc = "win_loop"
    /\ subject \in Subjects
    /\ window_seconds \in 0..MaxWindowSeconds
    /\ step_seconds \in 1..MaxStepSeconds
    /\ start = 0 /\ rows = <<>> /\ visited = <<>>
    /\ HrIdle /\ LocalIdle /\ RunIdle

\* one iteration of the loop of line 142
WinStep ==
    /\ pc = "win_loop"
    /\ start < LoopStop(Len(subject.bvp), WinBvp(window_seconds))
    /\ LET w == WindowAt(subject, start, window_seconds)
       IN  /\ visited' = Append(visited, w)
           /\ rows' = IF KeptLabel(w.raw_label)
                      THEN Append(rows, WindowRow(subject, w))
                      ELSE rows
    /\ start' = start + StepBvp(step_seconds)
    /\ UNCHANGED <<pc, subject, window_seconds, step_seconds, hrVars, localVars, runVars>>

\* the loop ends: return rows
WinReturn ==
    /\ pc = "win_loop"
    /\ ~(start < LoopStop(Len(subject.bvp), WinBvp(window_seconds)))
    /\ pc' = "win_done"
    /\ UNCHANGED <<hrVars, winVars, localVars, runVars>>

WinNext == WinStep \/ WinReturn

SpecWin == WinInit /\ [][WinNext]_vars

(***************************************************************************)
(* SpecLocal: build_local_features on one session table                    *)
(***************************************************************************)
\* the longest exhaustively enumerated session
MaxRows == 3

Cell(t, ts, bpm, gsr, temp, label) ==
    [time_iso |-> t, ts |-> ts, bpm_avg |-> bpm, gsr_avg |-> gsr, temp_avg |-> temp,
     label |-> label]

\* rows in and out of range of the unit heuristics, with undefined, unparsable
\* and infinite cells, and labels in and out of the vocabulary
RowKinds ==
    {Cell(Int2Val(1), 1, Int2Val(60), Int2Val(2), Int2Val(33), "rest"),
     Cell(Int2Val(2), 2, Int2Val(80), Int2Val(1500), Int2Val(3300), "STRESS"),
     Cell(Int2Val(3), 1, Int2Val(75), Int2Val(50), Int2Val(80), "Stress_Task"),
     Cell(BadText, 5, BadText, Int2Val(60000), Int2Val(33000), "recovery"),
     Cell(Int2Val(2), 1, Int2Val(100), Inf, Int2Val(34), "unlabeled"),
     Cell(Int2Val(1), 3, Inf, Int2Val(3), Int2Val(330), " Rest "),
     Cell(Int2Val(3), 2, Int2Val(120), Int2Val(4), Int2Val(900), "walk"),
     Cell(BadText, 4, Int2Val(0), Int2Val(51), Int2Val(81), "rest")}

\* a session longer than the rolling window: resting rows in time order, one of
\* them replaced by a row of RowKinds
RestRow(i) ==
    Cell(Int2Val(2), i, Int2Val(IF i % 2 = 0 THEN 60 ELSE 75), Int2Val(2), Int2Val(33), "rest")
LongSession(p, special) ==
    [i \in 1..(ROLL_WIN + 2) |-> IF i = p THEN [special EXCEPT !.ts = i] ELSE RestRow(i)]

Sessions ==
    {[stem |-> "a1", columns_ok |-> ok, rows |-> r] :
        ok \in BOOLEAN,
        r \in SeqsUpTo(RowKinds, MaxRows)
              \cup {LongSession(p, k) : p \in 1..(ROLL_WIN + 2), k \in RowKinds}}

LocalInit ==
    /\ pc = "local_read"
    /\ session \in Sessions
    /\ df = <<>> /\ normalized = <<>> /\ kept = <<>> /\ out = <<>>
    /\ HrIdle /\ WinIdle /\ RunIdle

\* lines 113-123
LocalRead ==
    /\ pc = "local_read"
    /\ HasRequiredColumns(session)
    /\ df' = ReadSession(session.rows)
    /\ pc' = "local_normalize"
    /\ UNCHANGED <<session, normalized, kept, out, hrVars, winVars, runVars>>

\* lines 114-116: raise ValueError
LocalMissingColumns ==
    /\ pc = "local_read"
    /\ ~HasRequiredColumns(session)
    /\ pc' = "local_error"
    /\ UNCHANGED <<localVars, hrVars, winVars, runVars>>

\* line 125
LocalNormalize ==
    /\ pc = "local_normalize"
    /\ normalized' = NormalizeLocalUnits(df)
    /\ pc' = "local_label"
    /\ UNCHANGED <<session, df, kept, out, hrVars, winVars, runVars>>

\* lines 127-135
LocalLabel ==
    /\ pc = "local_label"
    /\ kept' = DropUndefined(normalized)
    /\ pc' = "local_features"
    /\ UNCHANGED <<session, df, normalized, out, hrVars, winVars, runVars>>

\* lines 137-162
LocalBuild ==
    /\ pc = "local_features"
    /\ out' = LocalFeatures(session.stem, kept)
    /\ pc' = "local_done"
    /\ UNCHANGED <<session, df, normalized, kept, hrVars, winVars, runVars>>

LocalNext == LocalRead \/ LocalMissingColumns \/ LocalNormalize \/ LocalLabel \/ LocalBuild

SpecLocal == LocalInit /\ [][LocalNext]_vars

(***************************************************************************)
(* Spec: runs of the three programs                                        *)
(***************************************************************************)
\* the most subject folders, session files, and rows of a given feature table
MaxSubjects == 2
MaxSessions == 2
MaxTableRows == 3
\* the length of a recording and the longest window, in seconds
RunSeconds == 2
MaxRunWindow == 2

SubjectNames == <<"S2", "S3", "S4", "S5">>
SessionStems == <<"a1", "a2", "a3", "a4">>

\* a pulse with three beats in every second
RunPulse(n) == [i \in 1..n |-> IF (i - 1) % FS_BVP \in {1, 29, 57} THEN Amp ELSE 0]

\* a recording with one label code throughout
Recording(name, pulse, code) ==
    [name |-> name, bvp |-> pulse,
     eda |-> Ramp(RunSeconds * FS_EDA, 0), temp |-> Ramp(RunSeconds * FS_TEMP, 30),
     label |-> [i \in 1..(RunSeconds * LABEL_FS) |-> code]]

\* subject folders: baseline and stress recordings, a flat pulse, a recording
\* outside the study conditions, an empty recording, a folder without its pickle
SubjectKinds == {"calm", "stressed", "flat", "idle", "empty", "unreadable"}
SubjectDir(kind, name) ==
    [readable |-> kind # "unreadable",
     data |-> CASE kind = "calm" -> Recording(name, RunPulse(RunSeconds * FS_BVP), 1)
                [] kind = "stressed" -> Recording(name, RunPulse(RunSeconds * FS_BVP), 2)
                [] kind = "flat" -> Recording(name, FlatLine(RunSeconds * FS_BVP), 1)
                [] kind = "idle" -> Recording(name, RunPulse(RunSeconds * FS_BVP), 0)
                [] OTHER -> [NoSubject EXCEPT !.name = name]]
SubjectListings ==
    {[k \in DOMAIN kinds |-> SubjectDir(kinds[k], SubjectNames[k])] :
        kinds \in SeqsUpTo(SubjectKinds, MaxSubjects)}

\* session files: rows of both classes, rows none of which is usable, a usable
\* row beside an infinite one, a table without a required column
SessionKinds == {"good", "garbage", "partial", "no_column"}
SessionRows(kind) ==
    LET K(b, t, g, l, ts) == Cell(Int2Val(ts), ts, b, g, t, l)
    IN  CASE kind = "good" -> <<K(Int2Val(60), Int2Val(33), Int2Val(2), "rest", 1),
                                K(Int2Val(80), Int2Val(34), Int2Val(3), "STRESS", 2),
                                K(Int2Val(75), Int2Val(33), Int2Val(4), "Stress_Task", 3)>>
          [] kind = "garbage" -> <<K(BadText, Int2Val(33), Int2Val(2), "recovery", 1),
                                   K(Int2Val(120), Int2Val(33), Int2Val(2), "walk", 2)>>
          [] kind = "partial" -> <<K(Int2Val(60), Int2Val(33), Int2Val(2), "rest", 1),
                                   K(Inf, Int2Val(33), Int2Val(2), " Rest ", 2)>>
          [] OTHER -> <<>>
SessionFile(kind, stem) ==
    [stem |-> stem, columns_ok |-> kind # "no_column", rows |-> SessionRows(kind)]
SessionListings ==
    {[k \in DOMAIN kinds |-> SessionFile(kinds[k], SessionStems[k])] :
        kinds \in SeqsUpTo(SessionKinds, MaxSessions)}

\* rows of a given feature table: two subjects with both classes, and rows with
\* an undefined feature, an infinite feature and a missing subject
FeatureRowOf(name, code) ==
    [c \in Range(TABLE_COLUMNS) |->
        IF c = "subject" THEN name
        ELSE IF c = "label" THEN Int2Val(code)
        ELSE Int2Val(60 + code)]
TableRowKinds ==
    {FeatureRowOf(n, c) : n \in {"S2", "S3"}, c \in {0, 1}}
    \cup {[FeatureRowOf("S4", 1) EXCEPT !["gsr_std"] = NaN],
          [FeatureRowOf("S4", 0) EXCEPT !["bpm_max"] = Inf],
          FeatureRowOf(MissingName, 0)}
NoColumnsTable == [columns_ok |-> FALSE, rows |-> <<>>]
TrainTables ==
    {[columns_ok |-> TRUE, rows |-> r] : r \in SeqsUpTo(TableRowKinds, MaxTableRows)}
    \cup {NoColumnsTable}
MergeTables ==
    {[columns_ok |-> TRUE, rows |-> r] : r \in SeqsUpTo(TableRowKinds, 1)}
    \cup {[columns_ok |-> TRUE,
           rows |-> <<FeatureRowOf("S2", 0), FeatureRowOf("S2", 1),
                      FeatureRowOf("S3", 0), FeatureRowOf("S3", 1)>>],
          NoColumnsTable}

\* --test-size, in hundredths
TestSizes == {25, 50, 75}

RunInit ==
    /\ pc = "start"
    /\ HrIdle /\ LocalIdle
    /\ subject = NoSubject /\ start = 0 /\ rows = <<>> /\ visited = <<>>
    /\ idx = 0 /\ all_rows = <<>> /\ local_frames = <<>> /\ combined = <<>>
    /\ out_csv = NoFile /\ split = NoSplit /\ metrics = NoMetrics /\ error = ""
    /\ \/ /\ prog = "prepare"
          /\ wesad_root \in SubjectListings
          /\ window_seconds \in 1..MaxRunWindow /\ step_seconds = 1
          /\ features_csv = NoTable /\ local_dir = <<>> /\ test_size = 0
       \/ /\ prog = "merge"
          /\ features_csv \in MergeTables
          /\ local_dir \in SessionListings
          /\ test_size \in TestSizes
          /\ wesad_root = <<>> /\ window_seconds = 0 /\ step_seconds = 0
       \/ /\ prog = "train"
          /\ features_csv \in TrainTables
          /\ test_size \in TestSizes
          /\ wesad_root = <<>> /\ local_dir = <<>>
          /\ window_seconds = 0 /\ step_seconds = 0

\* the run ends with an exception
Abort(message) ==
    /\ pc' = "exit_error"
    /\ error' = message
    /\ UNCHANGED <<hrVars, winVars, localVars, prog, wesad_root, features_csv, local_dir,
                   test_size, idx, all_rows, local_frames, combined, out_csv, split,
                   metrics>>

\* what a step of a run leaves alone
Inputs == <<hrVars, winVars, localVars, prog, wesad_root, features_csv, local_dir, test_size>>

\* wesad_prepare.main, lines 195-197
PrepNoSubjects ==
    /\ pc = "start" /\ prog = "prepare"
    /\ wesad_root = <<>>
    /\ Abort("No subject folders found")

PrepListSubjects ==
    /\ pc = "start" /\ prog = "prepare"
    /\ wesad_root # <<>>
    /\ pc' = "prep_loop"
    /\ UNCHANGED <<Inputs, idx, all_rows, local_frames, combined, out_csv, split, metrics,
                   error>>

\* lines 200-202: one subject
PrepBuildSubject ==
    /\ pc = "prep_loop"
    /\ idx < Len(wesad_root)
    /\ wesad_root[idx + 1].readable
    /\ all_rows' = all_rows \o BuildSubjectRows(wesad_root[idx + 1].data,
                                                window_seconds, step_seconds)
    /\ idx' = idx + 1
    /\ UNCHANGED <<pc, Inputs, local_frames, combined, out_csv, split, metrics, error>>

\* build_subject_rows, lines 115-116: the pickle cannot be opened
PrepSubjectUnreadable ==
    /\ pc = "prep_loop"
    /\ idx < Len(wesad_root)
    /\ ~wesad_root[idx + 1].readable
    /\ Abort("FileNotFoundError")

\* lines 204-205
PrepNoRows ==
    /\ pc = "prep_loop"
    /\ idx = Len(wesad_root)
    /\ all_rows = <<>>
    /\ Abort("No rows built")

\* lines 207-212: clean, write the reference feature table
PrepWrite ==
    /\ pc = "prep_loop"
    /\ idx = Len(wesad_root)
    /\ all_rows # <<>>
    /\ combined' = DropNonFinite(all_rows, REFERENCE_COLUMNS)
    /\ out_csv' = [written |-> TRUE, rows |-> combined']
    /\ pc' = "prep_summary"
    /\ UNCHANGED <<Inputs, idx, all_rows, local_frames, split, metrics, error>>

\* lines 214-220
PrepSummary ==
    /\ pc = "prep_summary"
    /\ pc' = "exit_ok"
    /\ UNCHANGED <<Inputs, idx, all_rows, local_frames, combined, out_csv, split, metrics,
                   error>>

\* merge_local_and_train.main, lines 245-249
MergeWesadMissingColumns ==
    /\ pc = "start" /\ prog = "merge"
    /\ ~features_csv.columns_ok
    /\ Abort("WESAD features missing columns")

\* lines 252-254
MergeNoLocalFiles ==
    /\ pc = "start" /\ prog = "merge"
    /\ features_csv.columns_ok
    /\ local_dir = <<>>
    /\ Abort("No local CSV files")

MergeListLocal ==
    /\ pc = "start" /\ prog = "merge"
    /\ features_csv.columns_ok
    /\ local_dir # <<>>
    /\ pc' = "merge_loop"
    /\ UNCHANGED <<Inputs, idx, all_rows, local_frames, combined, out_csv, split, metrics,
                   error>>

\* lines 257-258: one session file
MergeBuildLocal ==
    /\ pc = "merge_loop"
    /\ idx < Len(local_dir)
    /\ HasRequiredColumns(local_dir[idx + 1])
    /\ local_frames' = Append(local_frames, BuildLocalFeatures(local_dir[idx + 1]))
    /\ idx' = idx + 1
    /\ UNCHANGED <<pc, Inputs, all_rows, combined, out_csv, split, metrics, error>>

\* build_local_features, lines 114-116: the ValueError ends the run
MergeLocalMissingColumns ==
    /\ pc = "merge_loop"
    /\ idx < Len(local_dir)
    /\ ~HasRequiredColumns(local_dir[idx + 1])
    /\ Abort("missing columns")

\* lines 260-265: concatenate, clean, write the harmonized table
MergeWrite ==
    /\ pc = "merge_loop"
    /\ idx = Len(local_dir)
    /\ combined' = DropNonFinite(SelectColumns(features_csv.rows)
                                     \o SelectColumns(Concat(local_frames)),
                                 TABLE_COLUMNS)
    /\ out_csv' = [written |-> TRUE, rows |-> combined']
    /\ pc' = "split"
    /\ UNCHANGED <<Inputs, idx, all_rows, local_frames, split, metrics, error>>

\* train_stress_model.main, lines 48-52
TrainMissingColumns ==
    /\ pc = "start" /\ prog = "train"
    /\ ~features_csv.columns_ok
    /\ Abort("Missing columns")

\* line 54
TrainRead ==
    /\ pc = "start" /\ prog = "train"
    /\ features_csv.columns_ok
    /\ combined' = DropNonFinite(features_csv.rows, TABLE_COLUMNS)
    /\ pc' = "split"
    /\ UNCHANGED <<Inputs, idx, all_rows, local_frames, out_csv, split, metrics, error>>

\* the split of both training programs raises
TrainSplitFails ==
    /\ pc = "split"
    /\ SplitRaises(combined, test_size)
    /\ Abort("ValueError")

\* the split of both training programs, under any seed
TrainSplit ==
    /\ pc = "split"
    /\ ~SplitRaises(combined, test_size)
    /\ \E perm \in Orderings(Groups(combined)) :
          split' = GroupShuffleSplit(combined, test_size, perm)
    /\ pc' = "fit"
    /\ UNCHANGED <<Inputs, idx, all_rows, local_frames, combined, out_csv, metrics, error>>

TrainFitFails ==
    /\ pc = "fit"
    /\ FitRaises(combined, split.train_idx)
    /\ Abort("ValueError")

TrainFit ==
    /\ pc = "fit"
    /\ ~FitRaises(combined, split.train_idx)
    /\ pc' = "score"
    /\ UNCHANGED <<Inputs, idx, all_rows, local_frames, combined, out_csv, split, metrics,
                   error>>

\* roc_auc_score with one class in y_test: a ValueError, or NaN and a warning,
\* depending on the scikit-learn installed
TrainScoreFails ==
    /\ pc = "score"
    /\ OneClassTest(combined, split.test_idx)
    /\ Abort("ValueError")

\* the metrics, then the model files and metrics.json
TrainExport ==
    /\ pc = "score"
    /\ metrics' = Metrics(combined, split)
    /\ pc' = "exit_ok"
    /\ UNCHANGED <<Inputs, idx, all_rows, local_frames, combined, out_csv, split, error>>

Next ==
    \/ PrepNoSubjects \/ PrepListSubjects \/ PrepBuildSubject \/ PrepSubjectUnreadable
    \/ PrepNoRows \/ PrepWrite \/ PrepSummary
    \/ MergeWesadMissingColumns \/ MergeNoLocalFiles \/ MergeListLocal
    \/ MergeBuildLocal \/ MergeLocalMissingColumns \/ MergeWrite
    \/ TrainMissingColumns \/ TrainRead
    \/ TrainSplitFails \/ TrainSplit \/ TrainFitFails \/ TrainFit
    \/ TrainScoreFails \/ TrainExport

Spec == RunInit /\ [][Next]_vars

(***************************************************************************)
(* Claims about the HR/HRV extractor (checked under SpecHr)                *)
(***************************************************************************)
\* the three insufficiency cases, as the claim words them
TooShort == Len(bvp) < fs
TooFewPeaks == Len(FindPeaks(bvp, fs)) < 2
TooFewIntervals == Len(AcceptedGaps(bvp, fs)) < 2

\* C3: the extractor returns the result with all six fields undefined when the
\* segment is shorter than one second of samples, or fewer than 2 peaks are
\* detected, or fewer than 2 inter-beat intervals pass the plausibility filter;
\* in every other case all six fields are defined numbers.
C3_UndefinedExactlyWhenInsufficient ==
    pc = "hr_done" =>
        IF TooShort \/ TooFewPeaks \/ TooFewIntervals
        THEN \A f \in HrFields : IsNa(hr[f])
        ELSE \A f \in HrFields : IsFinite(hr[f])

\* C3 witness: a full second of samples with at least 2 peaks whose intervals
\* are rejected as implausible, answered with the undefined result
C3_Witness ==
    /\ pc = "hr_done"
    /\ ~TooShort /\ ~TooFewPeaks /\ TooFewIntervals
    /\ hr = UndefinedHr

InBpmRange(v) == IsFinite(v) /\ Le(Num(333, 10), v) /\ Le(v, Int2Val(200))

\* C7: when the extractor returns a defined result, every beats-per-minute
\* value it derives, and bpm_min, bpm_avg and bpm_max, lie within [33.3, 200],
\* and hrv_rmssd and hrv_sdnn are non-negative.
C7_BpmWithinRange ==
    (pc = "hr_done" /\ hr # UndefinedHr) =>
        /\ \A i \in DOMAIN AcceptedGaps(bvp, fs) :
               InBpmRange(Bpm(AcceptedGaps(bvp, fs)[i], fs))
        /\ InBpmRange(hr.bpm_min) /\ InBpmRange(hr.bpm_avg) /\ InBpmRange(hr.bpm_max)
        /\ IsFinite(hr.hrv_rmssd) /\ Le(Zero, hr.hrv_rmssd)
        /\ IsFinite(hr.hrv_sdnn) /\ Le(Zero, hr.hrv_sdnn)

\* C7 witness: a defined result at 64 samples per second whose intervals differ
C7_Witness ==
    /\ pc = "hr_done" /\ fs = FS_BVP
    /\ IsFinite(hr.bpm_min) /\ Lt(hr.bpm_min, hr.bpm_max)
    /\ Lt(Zero, hr.hrv_rmssd)

\* the gaps, in samples, between consecutive detected peaks
DetectedGaps == Diff(FindPeaks(bvp, fs))

\* at 64 samples per second no two consecutive detected peaks are closer than
\* 0.4 s
PeaksApartAsStated ==
    (pc = "hr_done" /\ fs = FS_BVP) =>
        \A i \in DOMAIN DetectedGaps : 10 * DetectedGaps[i] >= 4 * fs

\* at 64 samples per second no beats-per-minute value derived from consecutive
\* peaks exceeds 150
BpmCeilingAsStated ==
    (pc = "hr_done" /\ fs = FS_BVP) =>
        /\ \A i \in DOMAIN AcceptedGaps(bvp, fs) :
               Le(Bpm(AcceptedGaps(bvp, fs)[i], fs), Int2Val(150))
        /\ hr # UndefinedHr => Le(hr.bpm_max, Int2Val(150))

\* C12 as stated: at 64 samples per second the minimum peak separation the
\* extractor enforces is at least 0.4 * 64 = 25.6 samples, so no two
\* consecutive detected peaks are closer than 0.4 s and no beats-per-minute
\* value derived from consecutive peaks exceeds 150.
C12_AsStated ==
    /\ (pc = "hr_done" /\ fs = FS_BVP) => 10 * PeakDistance(fs) >= 4 * fs
    /\ PeaksApartAsStated
    /\ BpmCeilingAsStated

(***************************************************************************)
(* Claims about the reference windowing engine (checked under SpecWin)     *)
(***************************************************************************)
\* the window's time interval in whole seconds: the i-th window (from 1) starts
\* (i - 1) strides after 0 and lasts one window length
WindowT0(i) == (i - 1) * step_seconds
WindowT1(i) == WindowT0(i) + window_seconds

\* the samples of stream s at the 0-based indices lo <= j < hi that exist
IndexRange(s, lo, hi) ==
    LET a == IF lo < Len(s) THEN lo ELSE Len(s)
        b == IF hi < Len(s) THEN hi ELSE Len(s)
    IN  [j \in 1..(IF b > a THEN b - a ELSE 0) |-> s[a + j]]

\* the label codes mapped to the i-th window: the label samples of its time
\* interval, or the single label at its first index when that range is empty
MappedLabels(i) ==
    LET l0 == LABEL_FS * WindowT0(i)
        inRange == IndexRange(subject.label, l0, LABEL_FS * WindowT1(i))
    IN  IF inRange # <<>> THEN inRange ELSE IndexRange(subject.label, l0, l0 + 1)

\* the most frequent code, the smallest one among equally frequent codes;
\* -1 when there is no code
MostFrequent(codes) ==
    LET n == [c \in Range(codes) |-> CountOf(codes, c)]
        top == {c \in DOMAIN n : \A o \in DOMAIN n : n[o] <= n[c]}
    IN  IF codes = <<>> THEN -1 ELSE CHOOSE c \in top : \A o \in top : c <= o

\* C4: a window emits a feature row only if the most frequent code of its mapped
\* label slice (ties to the smallest code) is 1 or 2; the row's target is 0 for
\* code 1 and 1 for code 2; a window with another majority code or with its label
\* index out of range emits nothing.
C4_MajorityLabelDecidesRows ==
    LET code == [i \in DOMAIN visited |-> MostFrequent(MappedLabels(i))]
        inStudy == {i \in DOMAIN visited : code[i] \in {1, 2}}
    IN  /\ Len(rows) = Cardinality(inStudy)
        /\ \A i \in inStudy :
              \E j \in DOMAIN rows :
                  /\ rows[j].window_start_s = Int2Val(WindowT0(i))
                  /\ rows[j].label = Int2Val(IF code[i] = 1 THEN 0 ELSE 1)

\* C4 witness: a window whose slice holds codes 1 and 2 equally often has
\* emitted a row with target 0, and a window of majority 2 a row with target 1
C4_Witness ==
    /\ pc = "win_done"
    /\ \E i \in DOMAIN visited :
          /\ CountOf(MappedLabels(i), 1) = CountOf(MappedLabels(i), 2)
          /\ CountOf(MappedLabels(i), 1) > 0
          /\ \E j \in DOMAIN rows :
                /\ rows[j].window_start_s = Int2Val(WindowT0(i))
                /\ rows[j].label = Zero
    /\ \E j \in DOMAIN rows : rows[j].label = Int2Val(1)

\* C10: the visited windows are exactly [k*S, k*S + W) for k = 0, 1, .. with
\* k*S + W <= N, in increasing k; the conductance and temperature sub-segments
\* of a window are the index ranges [4*t0, 4*t1) of its time interval, clipped
\* to the stream.
C10_WindowsAndSubSegments ==
    LET N == Len(subject.bvp)
        W == window_seconds * FS_BVP
        S == step_seconds * FS_BVP
    IN  /\ \A i \in DOMAIN visited :
              /\ visited[i].start = (i - 1) * S
              /\ visited[i].end = (i - 1) * S + W
              /\ visited[i].end <= N
              /\ visited[i].bvp_win = IndexRange(subject.bvp, (i - 1) * S, (i - 1) * S + W)
              /\ visited[i].eda_win =
                    IndexRange(subject.eda, FS_EDA * WindowT0(i), FS_EDA * WindowT1(i))
              /\ visited[i].temp_win =
                    IndexRange(subject.temp, FS_TEMP * WindowT0(i), FS_TEMP * WindowT1(i))
        /\ pc = "win_done" =>
              Len(visited) = Cardinality({k \in 0..N : k * S + W <= N})

\* C10 witness: a run over several windows, the last of which ends exactly at
\* the end of the pulse stream and has its conductance sub-segment clipped
C10_Witness ==
    /\ pc = "win_done"
    /\ Len(visited) >= 2
    /\ visited[Len(visited)].end = Len(subject.bvp)
    /\ Len(visited[Len(visited)].eda_win) > 0
    /\ Len(visited[Len(visited)].eda_win) < FS_EDA * window_seconds

(***************************************************************************)
(* Claims about the field-session builder (checked under SpecLocal)        *)
(***************************************************************************)
LocalNormalized == pc \in {"local_label", "local_features", "local_done"}

ScaledBy(col, m) == [i \in DOMAIN col |-> DivBy(col[i], m)]

\* the divisors the unit rules call for, from the medians of the columns read
GsrDivisorExpected ==
    IF GreaterThan(Median(Column(df, "gsr_avg")), 50) THEN 1000 ELSE 1
TempDivisorExpected ==
    LET temp == Column(df, "temp_avg")
    IN  IF ~GreaterThan(Median(temp), 80) THEN 1
        ELSE IF GreaterThan(Median(ScaledBy(temp, 10)), 80) THEN 100
        ELSE 10

\* C6: unit normalization divides the whole conductance column by 1000 exactly
\* once when its median exceeds 50 and leaves it unchanged otherwise (a median
\* of 1500 becomes 1.5); it divides the whole temperature column by 10 when its
\* median exceeds 80, and once more only if the median is still above 80, so
\* the temperature divisor is 1, 10 or 100; no other column is changed.
C6_UnitNormalization ==
    LocalNormalized =>
        /\ DOMAIN normalized = DOMAIN df
        /\ \A i \in DOMAIN df :
              normalized[i] =
                  [df[i] EXCEPT !.gsr_avg = DivBy(@, GsrDivisorExpected),
                                !.temp_avg = DivBy(@, TempDivisorExpected)]
        /\ Median(Column(df, "gsr_avg")) = Int2Val(1500)
              => Median(Column(normalized, "gsr_avg")) = Num(3, 2)

\* a session of conductance median 1500 and temperature median 3300, rescaled
\* to 1.5 and 33
C6_Witness ==
    /\ pc = "local_label"
    /\ Median(Column(df, "gsr_avg")) = Int2Val(1500)
    /\ Median(Column(normalized, "gsr_avg")) = Num(3, 2)
    /\ Median(Column(df, "temp_avg")) = Int2Val(3300)
    /\ Median(Column(normalized, "temp_avg")) = Int2Val(33)

Vocabulary == {"rest", "recovery", "unlabeled", "stress_task", "stress"}
ExpectedCode(label) == IF StripLower(label) \in {"stress_task", "stress"} THEN 1 ELSE 0

\* an input row (by its line in the file) the claim calls valid
ValidLine(i) ==
    LET r == session.rows[i]
    IN  /\ StripLower(r.label) \in Vocabulary
        /\ ~IsNa(Coerce(r.bpm_avg))
        /\ ~IsNa(Coerce(r.gsr_avg))
        /\ ~IsNa(Coerce(r.temp_avg))

\* the feature rows an input line has yielded
RowsOfLine(i) == {j \in DOMAIN out : out[j].line = i}

\* the feature row of a line carries its label code and its own pulse value
CarriesLine(j, i) ==
    /\ out[j].label = Int2Val(ExpectedCode(session.rows[i].label))
    /\ out[j].bpm_avg = Coerce(session.rows[i].bpm_avg)

\* the kept rows of the trailing eight-row window of a valid line
WindowOfLine(i) ==
    LET k == CHOOSE q \in DOMAIN kept : kept[q].line = i
    IN  {kept[q] : q \in (IF k - 7 < 1 THEN 1 ELSE k - 7)..k}

\* own averages finite, and no infinite conductance or temperature in the window
CleanLine(i) ==
    /\ IsFinite(Coerce(session.rows[i].bpm_avg))
    /\ \A r \in WindowOfLine(i) : IsFinite(r.gsr_avg) /\ IsFinite(r.temp_avg)

\* C5 as stated: every valid input row yields exactly one feature row, with
\* its label code and its own pulse value; every other row yields none.
C5_AsStated ==
    pc = "local_done" =>
        \A i \in DOMAIN session.rows :
            IF ValidLine(i)
            THEN /\ Cardinality(RowsOfLine(i)) = 1
                 /\ \A j \in RowsOfLine(i) : CarriesLine(j, i)
            ELSE RowsOfLine(i) = {}

\* C5: every input row with a label outside the vocabulary or an undefined
\* average yields no feature row; a valid row yields exactly one feature row,
\* with label 0 for rest/recovery/unlabeled and 1 for stress_task/stress and
\* its own pulse value as bpm_avg, when its averages are finite and no kept
\* row of its trailing eight-row window has an infinite conductance or
\* temperature; any other valid row yields none.
C5_ValidFiniteRowsYieldOneRow ==
    pc = "local_done" =>
        \A i \in DOMAIN session.rows :
            IF ValidLine(i) /\ CleanLine(i)
            THEN /\ Cardinality(RowsOfLine(i)) = 1
                 /\ \A j \in RowsOfLine(i) : CarriesLine(j, i)
            ELSE RowsOfLine(i) = {}

\* a session longer than the rolling window in which a valid row of finite
\* averages is lost to an infinite neighbour, while a later resting row is
\* kept
C5_Witness ==
    /\ pc = "local_done"
    /\ Len(session.rows) > ROLL_WIN
    /\ \E i \in DOMAIN session.rows :
          /\ ValidLine(i)
          /\ IsFinite(Coerce(session.rows[i].bpm_avg))
          /\ IsFinite(Coerce(session.rows[i].gsr_avg))
          /\ IsFinite(Coerce(session.rows[i].temp_avg))
          /\ RowsOfLine(i) = {}
    /\ \E j \in DOMAIN out : out[j].label = Int2Val(0)

\* the kept rows max(0, i-7) .. i of the kept row at position k (from 1)
WindowLo(k) == IF k - 7 < 1 THEN 1 ELSE k - 7
WindowRows(k) == SubSeq(kept, WindowLo(k), k)

\* the rolling columns of a feature row
ROLLING_COLUMNS ==
    <<"bpm_min", "bpm_max", "bpm_std", "hrv_rmssd", "hrv_sdnn",
      "gsr_min", "gsr_max", "gsr_std", "gsr_slope",
      "temp_min", "temp_max", "temp_std", "temp_slope">>

\* the finite values of a column among the window rows, and the pulse values
\* that are finite and positive
FiniteIn(k, c) == {WindowRows(k)[q][c] : q \in {j \in 1..Len(WindowRows(k)) :
                                                   IsFinite(WindowRows(k)[j][c])}}
PositivePulses(k) ==
    Cardinality({q \in 1..Len(WindowRows(k)) :
                    /\ IsFinite(WindowRows(k)[q].bpm_avg)
                    /\ Lt(Zero, WindowRows(k)[q].bpm_avg)})

\* the feature row of position k depends on its window rows alone, its minima
\* and maxima are those of the window, and a shallow window gives 0
RollsOverWindow(k) ==
    LET full == LocalRow(session.stem, kept, k)
        alone == LocalRow(session.stem, WindowRows(k), Len(WindowRows(k)))
    IN  /\ Len(WindowRows(k)) <= 8
        /\ \A c \in Range(ROLLING_COLUMNS) : full[c] = alone[c]
        /\ \A c \in {"bpm", "gsr", "temp"} :
              FiniteIn(k, c \o "_avg") # {} =>
                  /\ full[c \o "_min"] = MinVal(FiniteIn(k, c \o "_avg"))
                  /\ full[c \o "_max"] = MaxVal(FiniteIn(k, c \o "_avg"))
        /\ Len(WindowRows(k)) < 2 =>
              /\ full.bpm_std = Zero /\ full.gsr_std = Zero /\ full.temp_std = Zero
              /\ full.gsr_slope = Zero /\ full.temp_slope = Zero
        /\ PositivePulses(k) < 2 => full.hrv_sdnn = Zero
        /\ PositivePulses(k) < 3 => full.hrv_rmssd = Zero

\* C11: the rolling features of the i-th kept row are computed over exactly
\* the kept rows max(0, i-7) .. i, never over a later row and never over more
\* than 8 rows; a window too shallow gives 0, not an undefined value: std and
\* slope with fewer than 2 rows, hrv_sdnn with fewer than 2 finite positive
\* pulse values, hrv_rmssd with fewer than 3. The feature rows returned are
\* those rows.
C11_RollingWindowIsTrailingEight ==
    pc = "local_done" =>
        /\ \A k \in DOMAIN kept : RollsOverWindow(k)
        /\ \A j \in DOMAIN out :
              \E k \in DOMAIN kept :
                  /\ kept[k].line = out[j].line
                  /\ out[j] = LocalRow(session.stem, kept, k)

\* a session of more than eight kept rows: the first feature row has std 0, and
\* the ninth, whose window no longer holds the first row, is returned with a
\* positive std
C11_Witness ==
    /\ pc = "local_done"
    /\ Len(kept) > ROLL_WIN
    /\ \E j \in DOMAIN out : out[j].line = kept[1].line /\ out[j].bpm_std = Zero
    /\ \E j \in DOMAIN out :
          /\ out[j].line = kept[ROLL_WIN + 1].line
          /\ out[j].bpm_std # Zero

(***************************************************************************)
(* Claims about the runs (checked under Spec)                              *)
(***************************************************************************)
Ended == pc \in {"exit_ok", "exit_error"}

\* C1: for every table and every split call (any evaluation fraction, any
\* seed), the subject groups of the training partition and those of the
\* evaluation partition are disjoint: no subject has rows on both sides, and
\* the reported subjects_train and subjects_test share no element.
C1_SplitIsGroupDisjoint ==
    /\ {combined[i].subject : i \in split.train_idx}
           \cap {combined[i].subject : i \in split.test_idx} = {}
    /\ split.train_idx \cap split.test_idx = {}
    /\ metrics.subjects_train \cap metrics.subjects_test = {}
    /\ metrics # NoMetrics =>
          /\ metrics.subjects_train = {combined[i].subject : i \in split.train_idx}
          /\ metrics.subjects_test = {combined[i].subject : i \in split.test_idx}

\* a merge run that exported metrics for a table of three or more subjects,
\* one of them with several rows on the training side
C1_Witness ==
    /\ prog = "merge" /\ pc = "exit_ok"
    /\ Cardinality(Groups(combined)) >= 3
    /\ metrics.subjects_test # {}
    /\ Cardinality(metrics.subjects_train) < metrics.rows_train

\* the rows a run has gathered for its feature table, before cleaning
GatheredRows ==
    IF prog = "prepare" THEN all_rows
    ELSE SelectColumns(features_csv.rows) \o SelectColumns(Concat(local_frames))

FiniteRow(r) ==
    /\ \A c \in Range(FEATURE_COLUMNS) : IsFinite(r[c])
    /\ IsFinite(r.label)
    /\ r.subject # MissingName

\* C2: every row of every emitted feature table (the reference feature table
\* and the harmonized table) has all sixteen features finite and a defined
\* label and subject; a row with an undefined or infinite feature is dropped,
\* never imputed (every emitted row is a gathered row, and the finite gathered
\* rows are all there), so a reference window whose HR/HRV extraction is
\* undefined contributes no row.
C2_EmittedRowsAreFinite ==
    out_csv.written =>
        /\ \A i \in DOMAIN out_csv.rows :
              /\ FiniteRow(out_csv.rows[i])
              /\ out_csv.rows[i] \in Range(GatheredRows)
        /\ Len(out_csv.rows) =
              Cardinality({j \in DOMAIN GatheredRows : FiniteRow(GatheredRows[j])})
        /\ prog = "prepare" =>
              \A j \in DOMAIN all_rows :
                  all_rows[j].bpm_avg = NaN => all_rows[j] \notin Range(out_csv.rows)

\* a reference run that wrote rows while a window of undefined HR/HRV was built
C2_Witness ==
    /\ prog = "prepare" /\ pc = "exit_ok"
    /\ out_csv.written /\ out_csv.rows # <<>>
    /\ \E j \in DOMAIN all_rows : all_rows[j].bpm_avg = NaN

\* C8 as stated: a session table missing a required column, an empty session
\* directory, an empty subject listing and zero feature rows surviving
\* cleaning each abort the run before the failing stage writes its table: no
\* feature table is written without rows, and no such run ends successfully.
C8_AsStated ==
    /\ (prog = "merge" /\ \E k \in DOMAIN local_dir : ~local_dir[k].columns_ok)
          => ~out_csv.written /\ pc # "exit_ok"
    /\ (prog = "merge" /\ (local_dir = <<>> \/ ~features_csv.columns_ok))
          => ~out_csv.written /\ pc # "exit_ok"
    /\ (prog = "prepare" /\ wesad_root = <<>>) => ~out_csv.written /\ pc # "exit_ok"
    /\ out_csv.written => out_csv.rows # <<>>
    /\ (pc = "exit_ok" /\ prog \in {"prepare", "merge"}) => out_csv.rows # <<>>

\* the feature rows a session or a subject contributes to the emitted table
SessionYield(s) == DropNonFinite(SelectColumns(BuildLocalFeatures(s)), TABLE_COLUMNS)
SubjectYield(d) ==
    IF d.readable
    THEN DropNonFinite(BuildSubjectRows(d.data, window_seconds, step_seconds),
                       REFERENCE_COLUMNS)
    ELSE <<>>

\* malformed: a table without a required column or with an unusable row; a
\* folder without a readable recording or with a recording yielding no row
MalformedSession(s) == ~s.columns_ok \/ Len(SessionYield(s)) < Len(s.rows)
MalformedSubject(d) == SubjectYield(d) = <<>>

\* C9 as stated: when one session (or subject) is malformed and at least one
\* other yields feature rows, the run still completes its table and emits the
\* rows of the well-formed ones.
C9_AsStated ==
    Ended =>
        /\ (/\ prog = "merge" /\ features_csv.columns_ok
            /\ \E k, m \in DOMAIN local_dir :
                  /\ k # m
                  /\ MalformedSession(local_dir[k])
                  /\ local_dir[m].columns_ok /\ SessionYield(local_dir[m]) # <<>>)
              => /\ out_csv.written
                 /\ \A m \in DOMAIN local_dir :
                       local_dir[m].columns_ok
                           => Range(SessionYield(local_dir[m])) \subseteq Range(out_csv.rows)
        /\ (/\ prog = "prepare"
            /\ \E k, m \in DOMAIN wesad_root :
                  /\ k # m
                  /\ MalformedSubject(wesad_root[k])
                  /\ SubjectYield(wesad_root[m]) # <<>>)
              => /\ pc = "exit_ok"
                 /\ out_csv.written
                 /\ \A m \in DOMAIN wesad_root :
                       Range(SubjectYield(wesad_root[m])) \subseteq Range(out_csv.rows)

\* C9: unusable rows of a session and recordings that yield no row never abort
\* a run: when every session table has its required columns (every subject
\* folder a readable recording), the merge run writes the harmonized table
\* with the rows of every session, and the reference run that built any row
\* ends successfully with the clean rows of every subject. A session table
\* without a required column, or a subject folder without a readable
\* recording, aborts the whole run before any table is written, whatever the
\* other sessions or subjects yield.
C9_OnlyUnreadableInputsAbort ==
    Ended =>
        /\ (prog = "merge" /\ features_csv.columns_ok /\ local_dir # <<>>) =>
              IF \E k \in DOMAIN local_dir : ~local_dir[k].columns_ok
              THEN pc = "exit_error" /\ ~out_csv.written
              ELSE /\ out_csv.written
                   /\ \A m \in DOMAIN local_dir :
                         Range(SessionYield(local_dir[m])) \subseteq Range(out_csv.rows)
        /\ (prog = "prepare" /\ wesad_root # <<>>) =>
              IF \E k \in DOMAIN wesad_root : ~wesad_root[k].readable
              THEN pc = "exit_error" /\ ~out_csv.written
              ELSE IF \A k \in DOMAIN wesad_root :
                         BuildSubjectRows(wesad_root[k].data, window_seconds,
                                          step_seconds) = <<>>
              THEN pc = "exit_error" /\ ~out_csv.written
              ELSE /\ pc = "exit_ok" /\ out_csv.written
                   /\ \A m \in DOMAIN wesad_root :
                         Range(SubjectYield(wesad_root[m])) \subseteq Range(out_csv.rows)

\* a merge run over a session without a usable row and a session of three
\* usable rows, which wrote the harmonized table with those three rows
C9_Witness ==
    /\ Ended /\ prog = "merge"
    /\ \E k, m \in DOMAIN local_dir :
          /\ local_dir[k].columns_ok /\ local_dir[k].rows # <<>>
          /\ SessionYield(local_dir[k]) = <<>>
          /\ Len(SessionYield(local_dir[m])) = 3
    /\ out_csv.written /\ Len(out_csv.rows) >= 3

====
